---- MODULE Spec2Model ----
(***************************************************************************)
(* A model of core/solver.py of StarGAN v2: the Solver's training loop     *)
(* (Solver.train), its checkpoint helpers, Solver.evaluate and             *)
(* Solver.sample, and the module-level functions compute_d_loss,           *)
(* compute_g_loss and moving_average.                                      *)
(*                                                                         *)
(* Python exceptions are modelled by pc = "raised" with the exception's    *)
(* name in error: solver.py has no try/except, so a raise anywhere in      *)
(* train ends the run.                                                     *)
(*                                                                         *)
(* Tensors are abstracted to one number per network role, on an integer    *)
(* grid; floating-point results are rounded to that grid (RoundDiv), as    *)
(* binary floating point rounds every result to a representable value.     *)
(***************************************************************************)
EXTENDS Integers, Sequences, FiniteSets, TLC

\* ------------------------------------------------------------- bounds
\* args.num_epochs and args.resume_epoch range over 0..MaxEpochs
MaxEpochs == 2
\* len(fetcher.loader), the batches per epoch, ranges over 0..MaxIters
MaxIters == 2
\* args.save_every, args.eval_every, args.wandb_log range over 1..MaxEvery
MaxEvery == 2
\* args.ds_epoch ranges over 1..MaxDsEpoch
MaxDsEpoch == 3
\* args.lambda_ds starts at 0..MaxLambda (whole numbers)
MaxLambda == 1
\* the number-grid: representable values per 1.0 of lambda_ds
Unit == 8
\* backward passes of one run that leave a non-finite gradient
MaxOverflows == 1
\* moving_average called alone: parameter values in -MaxVal..MaxVal
MaxVal == 2
\* moving_average called alone: a module has 0..MaxParams parameters
MaxParams == 1
\* moving_average called alone: beta = n/d with 0 < n < d <= MaxBetaDen
MaxBetaDen == 3
\* moving_average called alone: at most MaxCalls repeated calls
MaxCalls == 2
\* the solver's methods called from outside: at most MaxApiCalls calls of
\* _save_checkpoint, _load_checkpoint, evaluate and sample
MaxApiCalls == 2
\* the solver's methods called from outside: at most MaxSolvers solvers are
\* constructed, one after the other, on one checkpoint directory
MaxSolvers == 2
\* the solver's methods called from outside: train is called at most
\* MaxTrainCalls times on one solver
MaxTrainCalls == 2

\* ---------------------------------------------------------- constants
\* beta=0.999 of the three moving_average calls in train, as a fraction
BetaNum == 999
BetaDen == 1000
\* GradScaler() defaults: init_scale 2^16, growth_interval 2000
InitScale == 65536
GrowthInterval == 2000

None == "None"
\* a parameter's .grad after zero_grad()
NoGrad == [loss |-> None, finite |-> TRUE]
\* train's local all_losses before the loop body has assigned it
Unbound == [bound |-> FALSE, keys |-> {}, lambda_ds |-> 0]
NaN == -(10 ^ 6)

VARIABLES
    args,               \* the configuration; args.lambda_ds is mutated by train
    cuda,               \* torch.cuda.is_available()
    iters_per_epoch,    \* len(fetcher.loader)
    nets,               \* role -> parameter value of the live network
    nets_ema,           \* role -> parameter value of the EMA shadow
    optims,             \* role -> Adam optimizer: [lr, step]
    grads,              \* role -> .grad of the role's parameters
    scaler,             \* the GradScaler: [enabled, scale, growth_tracker]
    ckpt_files,         \* the checkpoint files written so far
    loaded,             \* the steps _load_checkpoint has restored
    pc,                 \* where train is
    error,              \* the exception that ended the run, or None
    epoch,              \* train's loop variable
    batch_idx,          \* train's inner loop variable
    start_epoch,        \* train's local
    initial_lambda_ds,  \* train's local
    all_losses,         \* train's local, Unbound until the loop body ran
    masks,              \* train's local
    events,             \* what the current iteration did, in order
    epoch_events,       \* what the end of the current epoch did, in order
    n_iters,            \* iterations that ran to their end
    epoch_lambda_ds,    \* history: args.lambda_ds when the current epoch began
    n_overflows,        \* history: backward passes that left a non-finite gradient
    saved,              \* history: step -> the solver's state when it was last saved
    call                \* a call of a module-level function on its own

vars == <<args, cuda, iters_per_epoch, nets, nets_ema, optims, grads, scaler,
          ckpt_files, loaded, pc, error, epoch, batch_idx, start_epoch,
          initial_lambda_ds, all_losses, masks, events, epoch_events,
          n_iters, epoch_lambda_ds, n_overflows, saved, call>>

\* ------------------------------------------------------------ numbers

Abs(x) == IF x < 0 THEN -x ELSE x

\* n/d rounded to the nearest integer, ties to even (d > 0)
RoundDiv(n, d) ==
    LET q == n \div d
        r == n % d
    IN  IF 2 * r < d THEN q
        ELSE IF 2 * r > d THEN q + 1
        ELSE IF q % 2 = 0 THEN q ELSE q + 1

\* torch.lerp(start, end, weight) with weight = wn/wd:
\*   start + weight*(end - start)        when |weight| < 0.5
\*   end - (end - start)*(1 - weight)    otherwise
lerp_swapped(start, end, wn, wd) ==
    IF start = NaN \/ end = NaN THEN NaN
    ELSE IF 2 * wn < wd THEN end + RoundDiv(wn * (start - end), wd)
    ELSE start - RoundDiv((start - end) * (wd - wn), wd)

lerp(start, end, wn, wd) ==
    IF start = NaN \/ end = NaN THEN NaN
    ELSE IF 2 * wn < wd THEN start + RoundDiv(wn * (end - start), wd)
    ELSE end - RoundDiv((end - start) * (wd - wn), wd)

\* moving_average(model, model_test, beta): over zip(model.parameters(),
\* model_test.parameters()), param_test.data = lerp(param, param_test, beta);
\* zip stops at the shorter list, the rest of model_test is left alone.
moving_average(model, model_test, bn, bd) ==
    [i \in 1..Len(model_test) |->
        IF i <= Len(model) THEN lerp(model[i], model_test[i], bn, bd)
        ELSE model_test[i]]

\* ----------------------------------------------------- loss functions

\* compute_d_loss without its first line: both or neither style source pass
compute_d_loss_unchecked(x_real, z_trg, x_ref, m) ==
    [error  |-> None,
     x_real |-> [x_real EXCEPT !.requires_grad = TRUE],
     evals  |-> <<"discriminator",
                  IF z_trg # None THEN "mapping_network" ELSE "style_encoder",
                  "generator", "discriminator">>,
     losses |-> {"real", "fake", "reg"}]

\* compute_d_loss(nets, args, x_real, y_org, y_trg, z_trg, x_ref, masks):
\* the assert, then x_real.requires_grad_(), then the networks in the order
\* they are evaluated. The result names the exception raised (or None), the
\* input x_real as the call leaves it, the networks evaluated and the keys
\* of the breakdown.
compute_d_loss(x_real, z_trg, x_ref, m) ==
    IF (z_trg = None) = (x_ref = None)
    THEN [error |-> "AssertionError", x_real |-> x_real, evals |-> <<>>,
          losses |-> {}]
    ELSE [error  |-> None,
          x_real |-> [x_real EXCEPT !.requires_grad = TRUE],
          evals  |-> <<"discriminator",
                       IF z_trg # None THEN "mapping_network" ELSE "style_encoder",
                       "generator", "discriminator">>,
          losses |-> {"real", "fake", "reg"}]

\* compute_g_loss with the guards of its commented-out lines 230-234:
\* a missing x_refs is not unpacked
compute_g_loss_guarded(z_trgs, x_refs, w_hpf) ==
    [error  |-> None,
     evals  |-> <<"mapping_network", "generator", "discriminator",
                  "style_encoder", "style_encoder", "mapping_network",
                  "generator">>
                \o (IF w_hpf THEN <<"fan">> ELSE <<>>)
                \o <<"style_encoder", "generator">>,
     losses |-> {"adv", "sty", "ds", "cyc"}]

\* compute_g_loss(nets, args, x_real, y_org, y_trg, z_trgs, x_refs, masks):
\* "z_trg, z_trg2 = z_trgs" and "x_ref, x_ref2 = x_refs" raise TypeError on
\* None; then the networks in the order they are evaluated.
compute_g_loss(z_trgs, x_refs, w_hpf) ==
    IF z_trgs = None \/ x_refs = None
    THEN [error |-> "TypeError", evals |-> <<>>, losses |-> {}]
    ELSE [error  |-> None,
          evals  |-> <<"mapping_network", "generator", "discriminator",
                       "style_encoder", "style_encoder", "mapping_network",
                       "generator">>
                     \o (IF w_hpf THEN <<"fan">> ELSE <<>>)
                     \o <<"style_encoder", "generator">>,
          losses |-> {"adv", "sty", "ds", "cyc"}]

\* ------------------------------------------- networks and optimizers

TrainedRoles == {"generator", "mapping_network", "style_encoder", "discriminator"}
EmaRoles == {"generator", "mapping_network", "style_encoder"}
\* lines 139-141: the optimizers the generator phase steps, in order
GenPhaseRoles == <<"generator", "mapping_network", "style_encoder">>
\* line 131: the optimizers the discriminator phase steps
DiscPhaseRoles_generator == <<"generator">>
DiscPhaseRoles == <<"discriminator">>
\* the roles whose parameters d_loss.backward() reaches: compute_d_loss
\* evaluates the discriminator with gradient tracking, the mapping network
\* (or style encoder) and the generator under torch.no_grad()
DLossGradRoles == {"discriminator"}
\* the roles whose parameters g_loss.backward() reaches: compute_g_loss
\* evaluates all four trained networks with gradient tracking
GLossGradRoles == TrainedRoles

\* build_model(args): the live roles; 'fan' is there when w_hpf > 0
NetRoles(a) == TrainedRoles \cup (IF a.w_hpf THEN {"fan"} ELSE {})

\* Solver.__init__, train mode: one Adam per role but 'fan', with lr = f_lr
\* for mapping_network and lr for the others
OptRoles_with_fan(a) == NetRoles(a)
OptRoles(a) == NetRoles(a) \ {"fan"}
\* line 53: params=self.nets[net].parameters(): the optimizer of role r owns
\* the parameters of the live network r
OwnedParams_of_shadow(r) ==
    [coll |-> IF r \in EmaRoles THEN "nets_ema" ELSE "nets", role |-> r]
OwnedParams(r) == [coll |-> "nets", role |-> r]
MakeOptims(a) ==
    [r \in OptRoles(a) |->
        [lr |-> IF r = "mapping_network" THEN a.f_lr ELSE a.lr, step |-> 0,
         params |-> OwnedParams(r)]]

\* Solver.__init__: the checkpoint groups, by the name in their file template
ckptios_nets_only(a) ==
    IF a.mode = "train" THEN <<"nets">> ELSE <<"nets_ema">>
ckptios(a) ==
    IF a.mode = "train" THEN <<"nets", "optims">> ELSE <<"nets_ema">>

\* _reset_grad: optim.zero_grad() for every optimizer, which clears the
\* gradients of the parameters that optimizer owns
reset_grad_noop(g, o) == g
reset_grad(g, o) ==
    [x \in DOMAIN g |->
        IF \E r \in DOMAIN o : o[r].params = [coll |-> "nets", role |-> x]
        THEN NoGrad ELSE g[x]]

\* the .grad an optimizer finds on the parameters p it owns: the losses are
\* computed on the live networks only, a shadow never has a gradient
GradOf(g, p) == IF p.coll = "nets" THEN g[p.role] ELSE NoGrad

\* loss.backward(): the roles in `roles` get a gradient from `loss`, added
\* to the gradient they hold
backward(g, roles, loss, finite) ==
    [r \in DOMAIN g |->
        IF r \notin roles THEN g[r]
        ELSE IF g[r] = NoGrad THEN [loss |-> loss, finite |-> finite[r]]
        ELSE [loss |-> "accumulated", finite |-> g[r].finite /\ finite[r]]]

\* GradScaler.step(optimizer) runs optimizer.step() unless the scaler is
\* enabled and the optimizer's gradients hold an inf or a NaN
ScalerRunsStep(sc, g) ==
    g = NoGrad \/ ~sc.enabled \/ g.finite

FoundInf(sc, g) == sc.enabled /\ g # NoGrad /\ ~g.finite

\* what scaler.step(optims[r]) leaves in the role's parameter: Adam moves a
\* parameter with a gradient by about lr; a non-finite gradient poisons it
StepParam(sc, o, p, g) ==
    IF g = NoGrad \/ ~ScalerRunsStep(sc, g) THEN p
    ELSE IF p = NaN \/ ~g.finite THEN NaN
    ELSE p - o.lr

StepOptim(sc, o, g) ==
    IF g = NoGrad \/ ~ScalerRunsStep(sc, g) THEN o
    ELSE [o EXCEPT !.step = @ + 1]

\* GradScaler.update(): backoff_factor 0.5 when a step of the phase found an
\* inf, growth_factor 2 after growth_interval clean updates
ScalerUpdate(sc, found_inf) ==
    IF ~sc.enabled THEN sc
    ELSE IF found_inf
    THEN [sc EXCEPT !.scale = @ \div 2, !.growth_tracker = 0]
    ELSE IF sc.growth_tracker + 1 = GrowthInterval
    THEN [sc EXCEPT !.scale = @ * 2, !.growth_tracker = 0]
    ELSE [sc EXCEPT !.growth_tracker = @ + 1]

\* the collection `coll` (self.nets or self.nets_ema, by name) after
\* scaler.step(optims[r]) for the roles r of a phase: each optimizer moves
\* the parameters it owns
ScalerSteps(name, coll, o, roles, sc, g) ==
    [x \in DOMAIN coll |->
        IF \E r \in roles : o[r].params = [coll |-> name, role |-> x]
        THEN LET r == CHOOSE q \in roles :
                        o[q].params = [coll |-> name, role |-> x]
             IN  StepParam(sc, o[r], coll[x], GradOf(g, o[r].params))
        ELSE coll[x]]

\* lines 159-160: if args.lambda_ds > 0: args.lambda_ds -= initial / ds_epoch
LambdaDecay(l, initial, ds_epoch) ==
    IF l > 0 THEN l - RoundDiv(initial, ds_epoch) ELSE l

\* ------------------------------------------------ checkpoint helpers

\* what CheckpointIO `name` holds of the solver's state
GroupData(name, n, ne, o) ==
    IF name = "nets" THEN n ELSE IF name = "optims" THEN o ELSE ne

\* the files after CheckpointIO(name).save(step): the file of that name and
\* step is written anew
WriteFile(files, name, step, data) ==
    {f \in files : ~(f.name = name /\ f.step = step)}
        \cup {[name |-> name, step |-> step, data |-> data]}

\* _save_checkpoint(step): for ckptio in self.ckptios: ckptio.save(step).
\* `fail` is the index of the save that raises (0: none does); the groups
\* before it are written.
RECURSIVE SaveFrom(_, _, _, _, _, _, _, _)
SaveFrom(i, fail, files, io, step, n, ne, o) ==
    IF i > Len(io) \/ i = fail THEN files
    ELSE SaveFrom(i + 1, fail,
                  WriteFile(files, io[i], step, GroupData(io[i], n, ne, o)),
                  io, step, n, ne, o)

save_checkpoint(files, io, step, fail, n, ne, o) ==
    SaveFrom(1, fail, files, io, step, n, ne, o)

HasFile(files, name, step) == \E f \in files : f.name = name /\ f.step = step
FileData(files, name, step) ==
    (CHOOSE f \in files : f.name = name /\ f.step = step).data

\* CheckpointIO(name).load(step) on the solver state st: restores the
\* registered collection from the file of that name and step; a load error
\* when the file is absent or does not hold the registered roles
CheckpointIO_load(files, name, step, st) ==
    IF ~HasFile(files, name, step)
    THEN [st EXCEPT !.error = "LoadError"]
    ELSE LET data == FileData(files, name, step)
         IN  IF DOMAIN data # DOMAIN GroupData(name, st.nets, st.nets_ema, st.optims)
             THEN [st EXCEPT !.error = "LoadError"]
             ELSE IF name = "nets"
             THEN [st EXCEPT !.nets = data, !.groups = Append(@, name)]
             ELSE IF name = "optims"
             THEN [st EXCEPT !.optims = data, !.groups = Append(@, name)]
             ELSE [st EXCEPT !.nets_ema = data, !.groups = Append(@, name)]

\* _load_checkpoint(step): for ckptio in self.ckptios: ckptio.load(step);
\* the first load that raises ends the loop, the groups before it stay
\* loaded
RECURSIVE LoadFrom(_, _, _, _, _)
LoadFrom(i, io, step, files, st) ==
    IF i > Len(io) \/ st.error # None THEN st
    ELSE LoadFrom(i + 1, io, step, files,
                  CheckpointIO_load(files, io[i], step, st))

load_checkpoint(files, io, step, n, ne, o) ==
    LoadFrom(1, io, step, files,
             [nets |-> n, nets_ema |-> ne, optims |-> o, error |-> None,
              groups |-> <<>>])

\* history: whether a _save_checkpoint ran to its end, the groups it wrote
\* and the solver's state then
NoSnapshot ==
    [complete |-> FALSE, groups |-> <<>>, nets |-> <<>>, nets_ema |-> <<>>,
     optims |-> <<>>]
Snapshot(complete, groups, n, ne, o) ==
    [complete |-> complete, groups |-> groups, nets |-> n, nets_ema |-> ne,
     optims |-> o]

\* ---------------------------------------------------------- Solver.train

IsLogEpoch(e, a) == e % a.wandb_log = 0
IsSaveEpoch_off_by_one(e, a) == (e + 1) % a.save_every = 0
IsSaveEpoch(e, a) == e % a.save_every = 0
IsEvalEpoch(e, a) == e % a.eval_every = 0

\* an exception of ckptio.save leaves _save_checkpoint and train: neither
\* catches it
SaveRaises_caught(fail) == FALSE
SaveRaises(fail) == fail # 0

\* an exception of wandb.log leaves train: line 164 is not in a try
TrackerRaises(fails) == fails

\* an exception of calculate_metrics leaves train: lines 168-169 are not in
\* a try
MetricsRaises_caught(fail) == FALSE
MetricsRaises(fail) == fail # 0

\* line 112: start_epoch = args.resume_epoch if args.resume_epoch > 0 else 0
StartEpoch_zero(a) == 0
StartEpoch(a) == IF a.resume_epoch > 0 THEN a.resume_epoch ELSE 0

Raise(exc) ==
    /\ pc' = "raised"
    /\ error' = exc

\* lines 94-112: the locals of train before the loop
TrainEnter ==
    /\ UNCHANGED <<epoch_lambda_ds, n_overflows, saved>>
    /\ pc = "constructed"
    /\ args.mode = "train"
    /\ initial_lambda_ds' = args.lambda_ds
    /\ start_epoch' = StartEpoch(args)
    /\ epoch' = StartEpoch(args)
    /\ pc' = "epoch_loop"
    /\ UNCHANGED <<args, cuda, iters_per_epoch, nets, nets_ema, optims, grads,
                   scaler, ckpt_files, loaded, error, batch_idx, all_losses,
                   masks, events, epoch_events, n_iters, call>>

\* line 114: for epoch in range(start_epoch, num_epochs); train returns when
\* the range is exhausted
EpochLoop ==
    /\ pc = "epoch_loop"
    /\ IF epoch < args.num_epochs
       THEN /\ pc' = "batch_loop"
            /\ batch_idx' = 0
            /\ epoch_events' = <<>>
            /\ epoch_lambda_ds' = args.lambda_ds
       ELSE /\ pc' = "returned"
            /\ UNCHANGED <<batch_idx, epoch_events, epoch_lambda_ds>>
    /\ UNCHANGED <<n_overflows, saved>>
    /\ UNCHANGED <<args, cuda, iters_per_epoch, nets, nets_ema, optims, grads,
                   scaler, ckpt_files, loaded, error, epoch, start_epoch,
                   initial_lambda_ds, all_losses, masks, events, n_iters, call>>

\* lines 117-124: for batch_idx in range(iters_per_epoch): fetch the batch,
\* masks = nets.fan.get_heatmap(x_real) if args.w_hpf > 0 else None
BatchLoop ==
    /\ UNCHANGED <<epoch_lambda_ds, n_overflows, saved>>
    /\ pc = "batch_loop"
    /\ IF batch_idx < iters_per_epoch
       THEN /\ pc' = "d_phase"
            /\ masks' = IF args.w_hpf THEN "heatmap" ELSE None
            /\ events' = <<"fetch">>
       ELSE /\ pc' = "epoch_end_log"
            /\ UNCHANGED <<masks, events>>
    /\ UNCHANGED <<args, cuda, iters_per_epoch, nets, nets_ema, optims, grads,
                   scaler, ckpt_files, loaded, error, epoch, batch_idx,
                   start_epoch, initial_lambda_ds, all_losses, epoch_events,
                   n_iters, call>>

\* lines 126-132: the discriminator step. `finite` is whether the backward
\* pass left finite gradients.
DiscriminatorStep ==
    /\ UNCHANGED <<epoch_lambda_ds, saved>>
    /\ pc = "d_phase"
    /\ \E finite \in BOOLEAN :
        /\ finite \/ n_overflows < MaxOverflows
        /\ LET r  == compute_d_loss([data |-> "x_real", requires_grad |-> FALSE],
                                    "z_trg", None, masks)
               g0 == reset_grad(grads, optims)
               g1 == backward(g0, DLossGradRoles, "d_loss",
                              [x \in DLossGradRoles |-> finite])
               stepped == {DiscPhaseRoles[i] : i \in 1..Len(DiscPhaseRoles)}
               found_inf == \E x \in stepped :
                               FoundInf(scaler, GradOf(g1, optims[x].params))
           IN  IF r.error # None
               THEN /\ Raise(r.error)
                    /\ events' = events \o <<"d_loss_raised">>
                    /\ UNCHANGED <<nets, nets_ema, optims, grads, scaler,
                                   n_overflows>>
               ELSE /\ grads' = g1
                    /\ n_overflows' = IF finite THEN n_overflows
                                      ELSE n_overflows + 1
                    /\ nets' = ScalerSteps("nets", nets, optims, stepped,
                                           scaler, g1)
                    /\ nets_ema' = ScalerSteps("nets_ema", nets_ema, optims,
                                               stepped, scaler, g1)
                    /\ optims' = [x \in DOMAIN optims |->
                           IF x \in stepped
                           THEN StepOptim(scaler, optims[x],
                                          GradOf(g1, optims[x].params))
                           ELSE optims[x]]
                    /\ scaler' = ScalerUpdate(scaler, found_inf)
                    /\ events' = events
                           \o <<"d_loss", "reset_grad", "d_backward">>
                           \o [i \in 1..Len(DiscPhaseRoles) |->
                                   "step:" \o DiscPhaseRoles[i]]
                           \o <<"scaler.update">>
                    /\ pc' = "g_phase"
                    /\ UNCHANGED error
    /\ UNCHANGED <<args, cuda, iters_per_epoch, ckpt_files, loaded,
                   epoch, batch_idx, start_epoch, initial_lambda_ds,
                   all_losses, masks, epoch_events, n_iters, call>>

\* lines 134-160: the generator step, the losses collected for display, the
\* EMA update and the decay of lambda_ds. train calls compute_g_loss with
\* z_trgs=[z_trg, z_trg2] and without x_refs, which is then None. `finite`
\* is, per role, whether the backward pass left finite gradients.
GeneratorPhase ==
    /\ UNCHANGED <<epoch_lambda_ds, saved>>
    /\ pc = "g_phase"
    /\ \E finite \in [TrainedRoles -> BOOLEAN] :
        /\ (\A x \in TrainedRoles : finite[x]) \/ n_overflows < MaxOverflows
        /\ LET r  == compute_g_loss("[z_trg, z_trg2]", None, args.w_hpf)
               g0 == reset_grad(grads, optims)
               g1 == backward(g0, GLossGradRoles, "g_loss", finite)
               stepped == {GenPhaseRoles[i] : i \in 1..Len(GenPhaseRoles)}
               nets1 == ScalerSteps("nets", nets, optims, stepped, scaler, g1)
               ema1  == ScalerSteps("nets_ema", nets_ema, optims, stepped,
                                    scaler, g1)
               optims1 == [x \in DOMAIN optims |->
                           IF x \in stepped
                           THEN StepOptim(scaler, optims[x],
                                          GradOf(g1, optims[x].params))
                           ELSE optims[x]]
               found_inf == \E x \in stepped :
                               FoundInf(scaler, GradOf(g1, optims[x].params))
           IN  IF r.error # None
               THEN /\ Raise(r.error)
                    /\ events' = events \o <<"g_loss_raised">>
                    /\ UNCHANGED <<args, nets, nets_ema, optims, grads, scaler,
                                   batch_idx, all_losses, n_iters, n_overflows>>
               ELSE /\ grads' = g1
                    /\ n_overflows' = IF \A x \in TrainedRoles : finite[x]
                                      THEN n_overflows ELSE n_overflows + 1
                    /\ nets' = nets1
                    /\ optims' = optims1
                    /\ scaler' = ScalerUpdate(scaler, found_inf)
                    /\ all_losses' = [bound |-> TRUE,
                                      keys |-> {"D/latent_real", "D/latent_fake",
                                                "D/latent_reg", "G/latent_adv",
                                                "G/latent_sty", "G/latent_ds",
                                                "G/latent_cyc", "G/lambda_ds"},
                                      lambda_ds |-> args.lambda_ds]
                    /\ nets_ema' =
                           IF args.ema
                           THEN [x \in DOMAIN ema1 |->
                                   moving_average(<<nets1[x]>>, <<ema1[x]>>,
                                                  BetaNum, BetaDen)[1]]
                           ELSE ema1
                    /\ args' = [args EXCEPT !.lambda_ds =
                           LambdaDecay(@, initial_lambda_ds, args.ds_epoch)]
                    /\ events' = events
                           \o <<"g_loss", "reset_grad", "g_backward">>
                           \o [i \in 1..Len(GenPhaseRoles) |->
                                   "step:" \o GenPhaseRoles[i]]
                           \o <<"scaler.update">>
                           \o (IF args.ema
                               THEN [i \in 1..Len(GenPhaseRoles) |->
                                       "ema:" \o GenPhaseRoles[i]]
                               ELSE <<>>)
                           \o <<"decay">>
                    /\ batch_idx' = batch_idx + 1
                    /\ n_iters' = n_iters + 1
                    /\ pc' = "batch_loop"
                    /\ UNCHANGED error
    /\ UNCHANGED <<cuda, iters_per_epoch, ckpt_files, loaded, epoch,
                   start_epoch, initial_lambda_ds, masks, epoch_events, call>>

\* lines 163-164: if epoch % args.wandb_log == 0: wandb.log(all_losses, ...).
\* all_losses is bound by the loop body only. `fails`: wandb.log raises.
WandbLog ==
    /\ UNCHANGED <<epoch_lambda_ds, n_overflows, saved>>
    /\ pc = "epoch_end_log"
    /\ \E fails \in BOOLEAN :
        IF IsLogEpoch(epoch, args)
        THEN IF ~all_losses.bound
             THEN /\ Raise("UnboundLocalError")
                  /\ UNCHANGED epoch_events
             ELSE /\ epoch_events' = Append(epoch_events,
                        [ev |-> IF fails THEN "wandb.log_failed" ELSE "wandb.log",
                         arg |-> "all_losses", step |-> epoch])
                  /\ IF TrackerRaises(fails)
                     THEN Raise("WandbError")
                     ELSE pc' = "epoch_end_save" /\ UNCHANGED error
        ELSE /\ pc' = "epoch_end_save"
             /\ UNCHANGED <<error, epoch_events>>
    /\ UNCHANGED <<args, cuda, iters_per_epoch, nets, nets_ema, optims, grads,
                   scaler, ckpt_files, loaded, epoch, batch_idx, start_epoch,
                   initial_lambda_ds, all_losses, masks, events, n_iters, call>>

\* lines 165-166 and 82-84: if epoch % args.save_every == 0:
\* self._save_checkpoint(step=epoch). `fail`: the CheckpointIO whose save
\* raises (0: none).
SaveCheckpoint ==
    /\ UNCHANGED <<epoch_lambda_ds, n_overflows>>
    /\ pc = "epoch_end_save"
    /\ \E fail \in 0..Len(ckptios(args)) :
        IF IsSaveEpoch(epoch, args)
        THEN LET io == ckptios(args)
                 written == IF fail = 0 THEN Len(io) ELSE fail - 1
             IN  /\ ckpt_files' = save_checkpoint(ckpt_files, io, epoch, fail,
                                                  nets, nets_ema, optims)
                 /\ epoch_events' = epoch_events
                        \o [i \in 1..written |->
                                [ev |-> "save", arg |-> io[i], step |-> epoch]]
                        \o (IF fail # 0
                            THEN <<[ev |-> "save_failed", arg |-> io[fail],
                                    step |-> epoch]>>
                            ELSE <<>>)
                 /\ saved' = [saved EXCEPT ![epoch] =
                        Snapshot(fail = 0, SubSeq(io, 1, written), nets, nets_ema,
                                 optims)]
                 /\ IF SaveRaises(fail)
                    THEN Raise("SaveError")
                    ELSE pc' = "epoch_end_eval" /\ UNCHANGED error
        ELSE /\ pc' = "epoch_end_eval"
             /\ UNCHANGED <<error, ckpt_files, epoch_events, saved>>
    /\ UNCHANGED <<args, cuda, iters_per_epoch, nets, nets_ema, optims, grads,
                   scaler, loaded, epoch, batch_idx, start_epoch,
                   initial_lambda_ds, all_losses, masks, events, n_iters, call>>

\* lines 167-171: if epoch % args.eval_every == 0: calculate_metrics in mode
\* 'latent', then in mode 'reference'; then the next epoch. `fail`: the call
\* of calculate_metrics that raises (0: none).
Evaluate ==
    /\ UNCHANGED <<epoch_lambda_ds, n_overflows, saved>>
    /\ pc = "epoch_end_eval"
    /\ \E fail \in 0..2 :
        IF IsEvalEpoch(epoch, args)
        THEN LET modes == <<"latent", "reference">>
                 called == IF fail = 0 THEN 2 ELSE fail - 1
             IN  /\ epoch_events' = epoch_events
                        \o [i \in 1..called |->
                                [ev |-> "calculate_metrics", arg |-> modes[i],
                                 step |-> epoch]]
                        \o (IF fail # 0
                            THEN <<[ev |-> "calculate_metrics_failed",
                                    arg |-> modes[fail], step |-> epoch]>>
                            ELSE <<>>)
                 /\ IF MetricsRaises(fail)
                    THEN Raise("MetricsError") /\ UNCHANGED epoch
                    ELSE /\ pc' = "epoch_loop"
                         /\ epoch' = epoch + 1
                         /\ UNCHANGED error
        ELSE /\ pc' = "epoch_loop"
             /\ epoch' = epoch + 1
             /\ UNCHANGED <<error, epoch_events>>
    /\ UNCHANGED <<args, cuda, iters_per_epoch, nets, nets_ema, optims, grads,
                   scaler, ckpt_files, loaded, batch_idx, start_epoch,
                   initial_lambda_ds, all_losses, masks, events, n_iters, call>>

\* --------------------------------------------------------- Solver(args)

Configs ==
    [mode         : {"train"},
     num_epochs   : 0..MaxEpochs,
     resume_epoch : 0..MaxEpochs,
     wandb_log    : 1..MaxEvery,
     save_every   : 1..MaxEvery,
     eval_every   : 1..MaxEvery,
     ema          : BOOLEAN,
     w_hpf        : BOOLEAN,
     lambda_ds    : {l * Unit : l \in 0..MaxLambda},
     ds_epoch     : 1..MaxDsEpoch,
     lr           : {2000},
     f_lr         : {1000}]

\* Solver.__init__ in train mode: the networks of build_model (the live ones
\* re-initialised by he_init, the shadows not), one optimizer per role but
\* 'fan', a fresh GradScaler, which disables itself without CUDA.
Init ==
    /\ args \in Configs
    /\ cuda \in BOOLEAN
    /\ iters_per_epoch \in 0..MaxIters
    /\ nets = [r \in NetRoles(args) |-> 0]
    /\ nets_ema = [r \in EmaRoles |-> 1000]
    /\ optims = MakeOptims(args)
    /\ grads = [r \in NetRoles(args) |-> NoGrad]
    /\ scaler = [enabled |-> cuda, scale |-> InitScale, growth_tracker |-> 0]
    /\ ckpt_files = {}
    /\ loaded = {}
    /\ pc = "constructed"
    /\ error = None
    /\ epoch = 0
    /\ batch_idx = 0
    /\ start_epoch = 0
    /\ initial_lambda_ds = 0
    /\ all_losses = Unbound
    /\ masks = None
    /\ events = <<>>
    /\ epoch_events = <<>>
    /\ n_iters = 0
    /\ epoch_lambda_ds = 0
    /\ n_overflows = 0
    /\ saved = [s \in 0..MaxEpochs |-> NoSnapshot]
    /\ call = None

Next ==
    \/ TrainEnter
    \/ EpochLoop
    \/ BatchLoop
    \/ DiscriminatorStep
    \/ GeneratorPhase
    \/ WandbLog
    \/ SaveCheckpoint
    \/ Evaluate

Spec == Init /\ [][Next]_vars

\* ------------------------------------- compute_d_loss called on its own

\* the solver's variables while a module-level function is called alone
SolverIdle ==
    /\ args = [mode |-> "train", num_epochs |-> 0, resume_epoch |-> 0,
               wandb_log |-> 1, save_every |-> 1, eval_every |-> 1,
               ema |-> FALSE, w_hpf |-> FALSE, lambda_ds |-> 0,
               ds_epoch |-> 1, lr |-> 2000, f_lr |-> 1000]
    /\ cuda = FALSE
    /\ iters_per_epoch = 0
    /\ nets = [r \in TrainedRoles |-> 0]
    /\ nets_ema = [r \in EmaRoles |-> 1000]
    /\ optims = MakeOptims(args)
    /\ grads = [r \in TrainedRoles |-> NoGrad]
    /\ scaler = [enabled |-> FALSE, scale |-> InitScale, growth_tracker |-> 0]
    /\ ckpt_files = {}
    /\ loaded = {}
    /\ error = None
    /\ epoch = 0
    /\ batch_idx = 0
    /\ start_epoch = 0
    /\ initial_lambda_ds = 0
    /\ all_losses = Unbound
    /\ masks = None
    /\ events = <<>>
    /\ epoch_events = <<>>
    /\ n_iters = 0
    /\ epoch_lambda_ds = 0
    /\ n_overflows = 0
    /\ saved = [s \in 0..MaxEpochs |-> NoSnapshot]

InitDLoss ==
    /\ SolverIdle
    /\ pc = "call"
    /\ call \in [x_real : [data : {"x1", "x2"}, requires_grad : BOOLEAN],
                 y_org  : 0..1,
                 y_trg  : 0..1,
                 z_trg  : {None, "z1", "z2"},
                 x_ref  : {None, "r1", "r2"},
                 masks  : {None, "heatmap"},
                 x_real_after : {None},
                 evals  : {<<>>}]

\* compute_d_loss(nets, args, x_real, y_org, y_trg, z_trg, x_ref, masks):
\* x_real is changed in place, the networks are only evaluated
CallComputeDLoss ==
    /\ UNCHANGED <<epoch_lambda_ds, n_overflows, saved>>
    /\ pc = "call"
    /\ LET r == compute_d_loss(call.x_real, call.z_trg, call.x_ref, call.masks)
       IN  /\ call' = [call EXCEPT !.x_real_after = r.x_real,
                                   !.evals = r.evals]
           /\ error' = r.error
           /\ pc' = IF r.error # None THEN "raised" ELSE "returned"
    /\ UNCHANGED <<args, cuda, iters_per_epoch, nets, nets_ema, optims, grads,
                   scaler, ckpt_files, loaded, epoch, batch_idx, start_epoch,
                   initial_lambda_ds, all_losses, masks, events, epoch_events,
                   n_iters>>

NextDLoss == CallComputeDLoss

SpecDLoss == InitDLoss /\ [][NextDLoss]_vars

\* ------------------------------------- moving_average called on its own

Values == (-MaxVal)..MaxVal
Modules == UNION {[1..n -> Values] : n \in 0..MaxParams}
Betas == {<<n, d>> : n \in 1..MaxBetaDen, d \in 2..MaxBetaDen} \cup {<<BetaNum, BetaDen>>}

InitMA ==
    /\ SolverIdle
    /\ pc = "call"
    /\ \E model \in Modules, model_test \in Modules, beta \in Betas :
        /\ beta[1] < beta[2]
        /\ call = [model |-> model, model_test |-> model_test,
                   previous |-> model_test, beta |-> beta, calls |-> 0]

\* moving_average(model, model_test, beta), again and again with the live
\* module unchanged
CallMovingAverage ==
    /\ UNCHANGED <<epoch_lambda_ds, n_overflows, saved>>
    /\ pc = "call"
    /\ call.calls < MaxCalls
    /\ call' = [call EXCEPT
            !.previous = call.model_test,
            !.model_test = moving_average(call.model, call.model_test,
                                          call.beta[1], call.beta[2]),
            !.calls = @ + 1]
    /\ UNCHANGED <<args, cuda, iters_per_epoch, nets, nets_ema, optims, grads,
                   scaler, ckpt_files, loaded, pc, error, epoch, batch_idx,
                   start_epoch, initial_lambda_ds, all_losses, masks, events,
                   epoch_events, n_iters>>

NextMA == CallMovingAverage

SpecMA == InitMA /\ [][NextMA]_vars

\* ------------------------------- the solver's methods called from outside

\* In this specification the solver's methods are called one after the other
\* by the program that owns the solver. `call` records the calls made:
\* n, retrains, solvers count them; method, step, error, groups describe the
\* last one (groups: the checkpoint groups it went through); handed lists the
\* module collections the last evaluate or sample handed on.

TrainLocals == <<epoch, batch_idx, start_epoch, initial_lambda_ds, all_losses,
                 masks, events, epoch_events, n_iters, epoch_lambda_ds>>

\* self.optims is only set in train mode (line 47)
NoOptims == [r \in {} |-> 0]

\* a checkpoint of the shadows that did not come from this solver's train:
\* the published pretrained '{:06d}_nets_ema.ckpt'
Pretrained(s) ==
    [name |-> "nets_ema", step |-> s, data |-> [r \in EmaRoles |-> 500]]

ConfigsApi ==
    [mode         : {"train"},
     num_epochs   : {MaxEpochs},
     resume_epoch : 0..MaxEpochs,
     wandb_log    : {MaxEvery},
     save_every   : {1},
     eval_every   : {1},
     ema          : {TRUE},
     w_hpf        : BOOLEAN,
     lambda_ds    : {0},
     ds_epoch     : {1},
     lr           : {2000},
     f_lr         : {1000}]

\* Solver.__init__ in train mode, on a checkpoint directory that is empty or
\* holds a pretrained checkpoint of the shadows. The backward passes of this
\* specification leave finite gradients.
InitApi ==
    /\ args \in ConfigsApi
    /\ cuda = FALSE
    /\ iters_per_epoch \in 0..1
    /\ nets = [r \in NetRoles(args) |-> 0]
    /\ nets_ema = [r \in EmaRoles |-> 1000]
    /\ optims = MakeOptims(args)
    /\ grads = [r \in NetRoles(args) |-> NoGrad]
    /\ scaler = [enabled |-> cuda, scale |-> InitScale, growth_tracker |-> 0]
    /\ ckpt_files \in {{}, {Pretrained(args.resume_epoch)}}
    /\ loaded = {}
    /\ pc = "constructed"
    /\ error = None
    /\ epoch = 0
    /\ batch_idx = 0
    /\ start_epoch = 0
    /\ initial_lambda_ds = 0
    /\ all_losses = Unbound
    /\ masks = None
    /\ events = <<>>
    /\ epoch_events = <<>>
    /\ n_iters = 0
    /\ epoch_lambda_ds = 0
    /\ n_overflows = MaxOverflows
    /\ saved = [s \in 0..MaxEpochs |-> NoSnapshot]
    /\ call = [n |-> 0, retrains |-> 0, solvers |-> 1, method |-> "none",
               step |-> 0, error |-> None, groups |-> <<>>, handed |-> <<>>]

\* no method of the solver is running
ApiIdle == pc \in {"constructed", "returned", "raised"}

\* train called again on the same solver, after it returned or raised: its
\* locals are new, the solver's networks, optimizers, gradients, scaler and
\* args are as the last call left them
TrainAgain ==
    /\ pc \in {"returned", "raised"}
    /\ args.mode = "train"
    /\ call.retrains + 1 < MaxTrainCalls
    /\ call' = [call EXCEPT !.retrains = @ + 1]
    /\ initial_lambda_ds' = args.lambda_ds
    /\ start_epoch' = StartEpoch(args)
    /\ epoch' = StartEpoch(args)
    /\ pc' = "epoch_loop"
    /\ error' = None
    /\ all_losses' = Unbound
    /\ masks' = None
    /\ batch_idx' = 0
    /\ events' = <<>>
    /\ epoch_events' = <<>>
    /\ n_iters' = 0
    /\ UNCHANGED <<args, cuda, iters_per_epoch, nets, nets_ema, optims, grads,
                   scaler, ckpt_files, loaded, epoch_lambda_ds, n_overflows,
                   saved>>

\* lines 82-84: self._save_checkpoint(step) on a train-mode solver, for the
\* step the solver was configured to resume from. `fail`: the CheckpointIO
\* whose save raises (0: none).
CallSaveCheckpoint ==
    /\ ApiIdle
    /\ args.mode = "train"
    /\ call.n < MaxApiCalls
    /\ \E step \in {args.resume_epoch}, fail \in 0..Len(ckptios(args)) :
        LET io == ckptios(args)
            written == IF fail = 0 THEN Len(io) ELSE fail - 1
        IN  /\ ckpt_files' = save_checkpoint(ckpt_files, io, step, fail,
                                             nets, nets_ema, optims)
            /\ saved' = [saved EXCEPT ![step] =
                    Snapshot(fail = 0, SubSeq(io, 1, written), nets, nets_ema,
                                 optims)]
            /\ call' = [call EXCEPT
                    !.n = @ + 1, !.method = "_save_checkpoint", !.step = step,
                    !.error = IF SaveRaises(fail) THEN "SaveError" ELSE None,
                    !.groups = SubSeq(io, 1, written), !.handed = <<>>]
    /\ UNCHANGED <<args, cuda, iters_per_epoch, nets, nets_ema, optims, grads,
                   scaler, loaded, pc, error, n_overflows>>
    /\ UNCHANGED TrainLocals

\* lines 86-88: self._load_checkpoint(step), for the step the solver was
\* configured to resume from
CallLoadCheckpoint ==
    /\ ApiIdle
    /\ call.n < MaxApiCalls
    /\ \E step \in {args.resume_epoch} :
        LET r == load_checkpoint(ckpt_files, ckptios(args), step,
                                 nets, nets_ema, optims)
        IN  /\ nets' = r.nets
            /\ nets_ema' = r.nets_ema
            /\ optims' = r.optims
            /\ loaded' = IF r.error = None THEN loaded \cup {step} ELSE loaded
            /\ call' = [call EXCEPT
                    !.n = @ + 1, !.method = "_load_checkpoint", !.step = step,
                    !.error = r.error, !.groups = r.groups, !.handed = <<>>]
    /\ UNCHANGED <<args, cuda, iters_per_epoch, grads, scaler, ckpt_files, pc,
                   error, n_overflows, saved>>
    /\ UNCHANGED TrainLocals

\* the body shared by evaluate (lines 194-199) and sample (lines 176-190):
\* self._load_checkpoint(args.resume_epoch), then two calls that are handed
\* self.nets. `fail`: the call that raises (0: none).
LoadAndHandOn(method, callees) ==
    /\ pc = "constructed"
    /\ call.n < MaxApiCalls
    /\ \E fail \in 0..Len(callees) :
        LET r == load_checkpoint(ckpt_files, ckptios(args), args.resume_epoch,
                                 nets, nets_ema, optims)
            called == IF fail = 0 THEN Len(callees) ELSE fail
            err == IF r.error # None THEN r.error
                   ELSE IF fail # 0 THEN "CalleeError" ELSE None
        IN  /\ nets' = r.nets
            /\ nets_ema' = r.nets_ema
            /\ optims' = r.optims
            /\ loaded' = IF r.error = None
                         THEN loaded \cup {args.resume_epoch} ELSE loaded
            /\ call' = [call EXCEPT
                    !.n = @ + 1, !.method = method, !.step = args.resume_epoch,
                    !.error = err, !.groups = r.groups,
                    !.handed = IF r.error # None THEN <<>>
                               ELSE [i \in 1..called |->
                                       [callee |-> callees[i], coll |-> "nets",
                                        params |-> r.nets]]]
            /\ error' = err
            /\ pc' = IF err # None THEN "raised" ELSE "returned"
    /\ UNCHANGED <<args, cuda, iters_per_epoch, grads, scaler, ckpt_files,
                   n_overflows, saved>>
    /\ UNCHANGED TrainLocals

\* lines 192-199: Solver.evaluate, on a solver built with mode 'eval'
CallEvaluate ==
    /\ args.mode = "eval"
    /\ LoadAndHandOn("evaluate", <<"calculate_metrics:latent",
                                   "calculate_metrics:reference">>)

\* lines 174-190: Solver.sample, on a solver built with mode 'sample'
CallSample ==
    /\ args.mode = "sample"
    /\ LoadAndHandOn("sample", <<"translate_using_reference", "video_ref">>)

\* Solver(args) once more, in any mode, on the same checkpoint directory:
\* new networks, shadows, optimizers (train mode only) and scaler
NewSolver ==
    /\ ApiIdle
    /\ call.solvers < MaxSolvers
    /\ \E mode \in {"train", "eval", "sample"} :
        /\ args' = [args EXCEPT !.mode = mode]
        /\ optims' = IF mode = "train" THEN MakeOptims(args) ELSE NoOptims
    /\ nets' = [r \in NetRoles(args) |-> 0]
    /\ nets_ema' = [r \in EmaRoles |-> 1000]
    /\ grads' = [r \in NetRoles(args) |-> NoGrad]
    /\ scaler' = [enabled |-> cuda, scale |-> InitScale, growth_tracker |-> 0]
    /\ loaded' = {}
    /\ pc' = "constructed"
    /\ error' = None
    /\ epoch' = 0
    /\ batch_idx' = 0
    /\ start_epoch' = 0
    /\ initial_lambda_ds' = 0
    /\ all_losses' = Unbound
    /\ masks' = None
    /\ events' = <<>>
    /\ epoch_events' = <<>>
    /\ n_iters' = 0
    /\ epoch_lambda_ds' = 0
    /\ call' = [call EXCEPT !.solvers = @ + 1, !.retrains = 0,
                            !.method = "none", !.step = 0, !.error = None,
                            !.groups = <<>>, !.handed = <<>>]
    /\ UNCHANGED <<cuda, iters_per_epoch, ckpt_files, n_overflows, saved>>

NextApi ==
    \/ TrainEnter
    \/ EpochLoop
    \/ BatchLoop
    \/ DiscriminatorStep
    \/ GeneratorPhase
    \/ WandbLog
    \/ SaveCheckpoint
    \/ Evaluate
    \/ CallSaveCheckpoint
    \/ CallLoadCheckpoint
    \/ CallEvaluate
    \/ CallSample
    \/ NewSolver

SpecApi == InitApi /\ [][NextApi]_vars

\* train called more than once on one solver
NextRetrain ==
    \/ TrainEnter
    \/ EpochLoop
    \/ BatchLoop
    \/ DiscriminatorStep
    \/ GeneratorPhase
    \/ WandbLog
    \/ SaveCheckpoint
    \/ Evaluate
    \/ TrainAgain

SpecRetrain == InitApi /\ [][NextRetrain]_vars

\* ================================================================ claims

\* the loss computations and optimizer steps of the current iteration
IsPhaseEvent(e) ==
    e \in {"d_loss", "g_loss", "step:discriminator", "step:generator",
           "step:mapping_network", "step:style_encoder"}
IsGenStepOrEma(e) ==
    e \in {"step:generator", "step:mapping_network", "step:style_encoder",
           "ema:generator", "ema:mapping_network", "ema:style_encoder"}
\* an iteration was started and train is no longer inside it
IterationOver == events # <<>> /\ pc \notin {"d_phase", "g_phase"}
\* the epoch `epoch - 1` has run to its end (line 171)
EpochOver == pc \in {"epoch_loop", "returned"} /\ epoch > start_epoch
EpochSaves == SelectSeq(epoch_events, LAMBDA x : x.ev = "save")
EpochEvals == SelectSeq(epoch_events, LAMBDA x : x.ev = "calculate_metrics")

\* C1: every iteration of train runs to completion without raising: the
\* discriminator loss and one discriminator step, then the generator loss and
\* one step each of generator, mapping_network and style_encoder, in that
\* order, before the next batch is fetched.
C1_IterationRunsToCompletion ==
    IterationOver =>
        /\ pc # "raised" \/ events[Len(events)] \notin {"d_loss_raised", "g_loss_raised"}
        /\ SelectSeq(events, IsPhaseEvent) =
                <<"d_loss", "step:discriminator", "g_loss", "step:generator",
                  "step:mapping_network", "step:style_encoder">>

C3_DecayPerEpoch ==
    (EpochOver /\ epoch_lambda_ds > 0) =>
        args.lambda_ds = epoch_lambda_ds - RoundDiv(initial_lambda_ds, args.ds_epoch)

\* C4: with args.ema, every iteration updates each of the three EMA shadows
\* exactly once, after the three optimizer steps of the generator phase and
\* never before or between the phases.
C4_EmaOncePerIteration ==
    (args.ema /\ IterationOver) =>
        SelectSeq(events, IsGenStepOrEma) =
            <<"step:generator", "step:mapping_network", "step:style_encoder",
              "ema:generator", "ema:mapping_network", "ema:style_encoder">>

\* the discriminator phase of the current iteration left a non-finite gradient
DOverflowed == grads["discriminator"] = [loss |-> "d_loss", finite |-> FALSE]

\* C5: when the backward pass of a phase leaves a non-finite gradient, no
\* parameter of an optimizer stepped in that phase changes, the scale factor
\* is reduced, no exception is raised and training goes on with the next
\* phase and the next batch.
C5_OverflowSkipsAndContinues ==
    [][ /\ (pc = "d_phase" /\ pc' = "g_phase" /\ DOverflowed') =>
                /\ nets' = nets
                /\ optims' = optims
                /\ scaler'.scale < scaler.scale
        /\ (pc = "g_phase" /\ DOverflowed) => pc' = "batch_loop"
        /\ (pc = "g_phase" /\ pc' = "batch_loop"
                /\ \E r \in EmaRoles : ~grads'[r].finite) =>
                /\ nets' = nets
                /\ optims' = optims
                /\ scaler'.scale < scaler.scale
      ]_vars

\* C6: entered with resume_epoch = E > 0, train restores the checkpoint of
\* step E before the first iteration runs.
C6_ResumeLoadsCheckpoint ==
    (args.resume_epoch > 0 /\ pc \in {"d_phase", "g_phase"}) =>
        args.resume_epoch \in loaded

SaveFailed == \E i \in 1..Len(epoch_events) : epoch_events[i].ev = "save_failed"

C8_ExactlyOneStyleSource ==
    pc # "call" =>
        IF (call.z_trg = None) = (call.x_ref = None)
        THEN /\ pc = "raised"
             /\ error = "AssertionError"
             /\ call.evals = <<>>
             /\ call.x_real_after = call.x_real
        ELSE /\ pc = "returned"
             /\ error = None
             /\ LET used == {call.evals[i] : i \in 1..Len(call.evals)}
                IN  IF call.z_trg # None
                    THEN "mapping_network" \in used /\ "style_encoder" \notin used
                    ELSE "style_encoder" \in used /\ "mapping_network" \notin used

\* C8 witness: a call with both style sources has raised.
C8_Witness ==
    /\ pc = "raised"
    /\ call.z_trg # None
    /\ call.x_ref # None

\* C10: moving_average puts beta*shadow + (1-beta)*live (rounded to the
\* number grid) in the shadow; the new shadow lies between the old one and
\* the live value and is no farther from the live value.
C10_MovingAverageMonotone ==
    call.calls > 0 =>
        \A i \in 1..Len(call.model_test) :
            i <= Len(call.model) =>
                LET live == call.model[i]
                    old  == call.previous[i]
                    new  == call.model_test[i]
                    bn   == call.beta[1]
                    bd   == call.beta[2]
                IN  /\ 2 * Abs(bd * new - (bn * old + (bd - bn) * live)) <= bd
                    /\ (old <= live => (old <= new /\ new <= live))
                    /\ (old >= live => (live <= new /\ new <= old))
                    /\ Abs(new - live) <= Abs(old - live)

\* C10 witness: a second call has moved a shadow strictly closer to its live
\* value without reaching it.
C10_Witness ==
    /\ call.calls = 2
    /\ \E i \in 1..Len(call.model_test) :
        /\ i <= Len(call.model)
        /\ call.model_test[i] # call.previous[i]
        /\ call.model_test[i] # call.model[i]

SideChannelFailed ==
    \E i \in 1..Len(epoch_events) :
        epoch_events[i].ev \in {"wandb.log_failed", "calculate_metrics_failed"}

C13_ShadowsChangedOnlyByEma ==
    /\ [](\A r \in DOMAIN optims : optims[r].params.coll = "nets")
    /\ [][nets_ema' # nets_ema =>
            /\ pc = "g_phase"
            /\ pc' = "batch_loop"
            /\ args.ema
            /\ nets_ema' = [x \in EmaRoles |->
                    lerp(nets'[x], nets_ema[x], BetaNum, BetaDen)]]_vars
    /\ [][~args.ema => nets_ema' = nets_ema]_vars

\* C13 witness: with args.ema, an optimizer step and a backward pass have
\* been made and the shadows are as constructed.
C13_Witness ==
    /\ args.ema
    /\ events # <<>>
    /\ optims["discriminator"].step = 1
    /\ grads["discriminator"] # NoGrad
    /\ nets["discriminator"] # 0
    /\ \A r \in EmaRoles : nets_ema[r] = 1000

\* C14: the optimizer set holds exactly one optimizer for every network role
\* but 'fan' and none for 'fan', each on its own role's parameters, with
\* learning rate f_lr for mapping_network and lr for the others, from
\* construction on and through every training iteration.
C14_OneOptimizerPerTrainableRole ==
    /\ DOMAIN optims = DOMAIN nets \ {"fan"}
    /\ \A r \in DOMAIN optims :
        /\ optims[r].params.role = r
        /\ optims[r].lr = IF r = "mapping_network" THEN args.f_lr ELSE args.lr

\* C14 witness: a solver with the frozen 'fan' network whose discriminator
\* optimizer has made a step.
C14_Witness ==
    /\ "fan" \in DOMAIN nets
    /\ optims["discriminator"].step = 1
    /\ args.lr # args.f_lr

\* C15: the discriminator phase steps the discriminator's optimizer and no
\* other, and leaves every live network but the discriminator and every
\* shadow unchanged; the generator phase leaves the discriminator, its
\* optimizer and 'fan' unchanged, and the shadows as they were until the
\* moving average that follows it.
C15_PhaseFrames ==
    [][ /\ pc = "d_phase" =>
            /\ \A r \in DOMAIN nets \ {"discriminator"} : nets'[r] = nets[r]
            /\ nets_ema' = nets_ema
            /\ \A r \in DOMAIN optims \ {"discriminator"} : optims'[r] = optims[r]
            /\ (pc' = "g_phase"
                    /\ ScalerRunsStep(scaler, grads'["discriminator"])) =>
                    optims'["discriminator"].step =
                        optims["discriminator"].step + 1
        /\ pc = "g_phase" =>
            /\ nets'["discriminator"] = nets["discriminator"]
            /\ optims'["discriminator"] = optims["discriminator"]
            /\ ("fan" \in DOMAIN nets => nets'["fan"] = nets["fan"])
            /\ nets_ema' =
                    IF args.ema /\ pc' = "batch_loop"
                    THEN [x \in EmaRoles |->
                            lerp(nets'[x], nets_ema[x], BetaNum, BetaDen)]
                    ELSE nets_ema
      ]_vars

\* C15 witness: a discriminator phase has moved the discriminator, with the
\* frozen 'fan' network present, and the generator phase that followed has
\* ended.
C15_Witness ==
    /\ "fan" \in DOMAIN nets
    /\ nets["discriminator"] = -args.lr
    /\ \A r \in EmaRoles : nets[r] = 0
    /\ optims["discriminator"].step = 1
    /\ pc = "raised"
    /\ events # <<>>

\* the steps of train from an epoch's start to the next epoch's start
EpochSteps == 3 * iters_per_epoch + 5
\* the epochs train has to run, by the claim's formula
EpochsToRun == IF args.num_epochs > args.resume_epoch
               THEN args.num_epochs - args.resume_epoch ELSE 0
\* an upper bound on the steps train has left when epoch e is about to start
RankAt(e) == (IF args.num_epochs > e THEN args.num_epochs - e ELSE 0) * EpochSteps + 1
\* an upper bound on the steps train has left
Rank ==
    CASE pc = "constructed"     -> EpochsToRun * EpochSteps + 2
      [] pc = "epoch_loop"      -> RankAt(epoch)
      [] pc = "batch_loop"      -> RankAt(epoch + 1) + 4 + 3 * (iters_per_epoch - batch_idx)
      [] pc = "d_phase"         -> RankAt(epoch + 1) + 3 + 3 * (iters_per_epoch - batch_idx)
      [] pc = "g_phase"         -> RankAt(epoch + 1) + 2 + 3 * (iters_per_epoch - batch_idx)
      [] pc = "epoch_end_log"   -> RankAt(epoch + 1) + 3
      [] pc = "epoch_end_save"  -> RankAt(epoch + 1) + 2
      [] pc = "epoch_end_eval"  -> RankAt(epoch + 1) + 1
      [] OTHER                  -> 0

\* C17: train terminates: every step of train lowers a bound on the steps it
\* has left, which is never negative; when train returns it has run
\* max(0, num_epochs - start_epoch) * iters_per_epoch iterations, with
\* start_epoch = resume_epoch; and with resume_epoch >= num_epochs it starts
\* no iteration, saves nothing and evaluates nothing.
C17_TrainTerminates ==
    /\ [](Rank >= 0)
    /\ [][Rank' < Rank]_vars
    /\ [](pc = "returned" =>
            /\ error = None
            /\ n_iters = EpochsToRun * iters_per_epoch)
    /\ [](args.resume_epoch >= args.num_epochs =>
            /\ pc \in {"constructed", "epoch_loop", "returned"}
            /\ events = <<>>
            /\ epoch_events = <<>>
            /\ n_iters = 0
            /\ ckpt_files = {})

\* C17 witness: train has returned after running an epoch.
C17_Witness ==
    /\ pc = "returned"
    /\ args.num_epochs > args.resume_epoch
    /\ epoch = args.num_epochs
    /\ epoch > start_epoch

\* C12: on a train-mode solver, _load_checkpoint(S) after a
\* _save_checkpoint(S) that ran to its end, whatever training was done in
\* between, succeeds and leaves the parameters of every network role and the
\* state of every optimizer as they were at the save; the load goes through
\* the groups the save went through, the networks' and the optimizers'.
C12_CheckpointRoundTrip ==
    [][(/\ call'.n = call.n + 1
        /\ call'.method = "_load_checkpoint"
        /\ args.mode = "train"
        /\ saved[call'.step].complete) =>
            /\ call'.error = None
            /\ nets' = saved[call'.step].nets
            /\ optims' = saved[call'.step].optims
            /\ call'.groups = saved[call'.step].groups
            /\ call'.groups = <<"nets", "optims">>
      ]_vars

\* C12 witness: a solver saved, then trained (its discriminator and the
\* discriminator's optimizer made a step), then loaded the step it had saved
\* and is back at the saved values.
C12_Witness ==
    /\ args.mode = "train"
    /\ call.solvers = 1
    /\ call.method = "_load_checkpoint"
    /\ call.error = None
    /\ saved[call.step].complete
    /\ pc = "raised"
    /\ events # <<>>
    /\ grads["discriminator"] # NoGrad
    /\ saved[call.step].nets["discriminator"] = 0
    /\ nets["discriminator"] = 0
    /\ optims["discriminator"].step = 0

\* C16: the gradients an optimizer finds when a phase steps come from that
\* phase's loss in that iteration only: after the discriminator phase every
\* gradient held by an optimizer's parameters is d_loss's, after the
\* generator phase g_loss's; a gradient left by an earlier backward pass is
\* zeroed before the next one and never applied.
C16_GradientIsolation ==
    [][ /\ (pc = "d_phase" /\ pc' = "g_phase") =>
                /\ grads'["discriminator"].loss = "d_loss"
                /\ \A r \in DOMAIN optims :
                        grads'[r] = NoGrad \/ grads'[r].loss = "d_loss"
        /\ (pc = "g_phase" /\ pc' = "batch_loop") =>
                \A r \in DOMAIN optims : grads'[r].loss = "g_loss"
      ]_vars

\* C16 witness: a discriminator phase ran on a solver whose discriminator
\* still held the gradient of an earlier backward pass (train was called
\* again), and holds the new gradient only.
C16_Witness ==
    /\ call.retrains = 1
    /\ pc = "g_phase"
    /\ grads["discriminator"] = [loss |-> "d_loss", finite |-> TRUE]
    /\ optims["discriminator"].step = 2

\* C18: when a train-mode solver has saved step S, evaluate and sample of a
\* solver built in a non-train mode with resume_epoch = S load without error,
\* and every group they load is one the save wrote.
C18_TrainCheckpointsServeEvaluate ==
    (call.method \in {"evaluate", "sample"} /\ saved[call.step].complete) =>
        /\ call.error # "LoadError"
        /\ \A i \in 1..Len(call.groups) :
                \E j \in 1..Len(saved[call.step].groups) :
                    call.groups[i] = saved[call.step].groups[j]

\* C19: the networks evaluate and sample hand on carry the parameters of the
\* checkpoint that the preceding _load_checkpoint(resume_epoch) loaded.
C19_EvaluatedNetworksAreTheLoadedOnes ==
    (call.method \in {"evaluate", "sample"} /\ call.handed # <<>>) =>
        \A i \in 1..Len(call.handed), j \in 1..Len(call.groups) :
            LET data == FileData(ckpt_files, call.groups[j], call.step)
            IN  \A r \in DOMAIN data :
                    /\ r \in DOMAIN call.handed[i].params
                    /\ call.handed[i].params[r] = data[r]

====
